---- MODULE Spec2Model ----
(***************************************************************************)
(* Model of ms_peak_picker/scan_filter.py: the filter register, the        *)
(* register decorator, the built-in filter classes and transform.          *)
(*                                                                         *)
(* Numbers.  A float64 is modelled as an exact rational [n, d] in lowest   *)
(* terms with d > 0; rounding is abstracted away.  The three non-finite    *)
(* IEEE values a division by zero yields under NumPy's default error       *)
(* handling (a RuntimeWarning, no exception) are the records with d = 0.   *)
(*                                                                         *)
(* Arrays.  A NumPy array is an object: heap[r] is the content of the      *)
(* array with reference r.  The caller's coordinate array is reference 1   *)
(* and the caller's intensity array is reference 2; a filter that builds   *)
(* a new array appends it to the heap, a filter that writes in place       *)
(* changes heap[r].                                                        *)
(*                                                                         *)
(* Specifications.  All three start with the import of the module, which   *)
(* runs the register decorators one by one, and then call transform again  *)
(* and again.  Spec calls it with lists of names (one of them not          *)
(* registered), a plain callable and an instance; SpecVariant with         *)
(* pipelines of the seven built-in variants; SpecPreset with every         *)
(* registered preset and directly constructed instances, one filter at a   *)
(* time (a constant threshold also twice in succession).                   *)
(***************************************************************************)
EXTENDS Integers, Sequences, FiniteSets, TLC

VARIABLES
    filter_register,  \* the module-level dict: name -> filter instance
    load_idx,         \* how many register(...) decorators of the module have run
    next_oid,         \* identity given to the next instance the module constructs
    pc,               \* "loading", "idle", "loop", "returned", "raised"
    filters_arg,      \* the filters argument as the caller passed it
    filters,          \* the local filters after lines 215-216
    idx,              \* position of the for loop of line 218 (1-based)
    heap,             \* array objects: reference -> content
    mz_array,         \* reference held by the local mz_array
    intensity_array,  \* reference held by the local intensity_array
    error,            \* the exception leaving transform, "none" if none
    passed,           \* the values of the caller's two arrays at the call
    trace             \* history: one record per stage that ran to completion

vars == <<filter_register, load_idx, next_oid, pc, filters_arg, filters, idx,
          heap, mz_array, intensity_array, error, passed, trace>>

----------------------------------------------------------------------------
(* Bounds of the model. *)

\* longest array the caller passes
MaxLen == 2
\* longest filters list the caller passes
MaxFilters == 2

----------------------------------------------------------------------------
(* float64 arithmetic, exact. *)

Abs(x) == IF x < 0 THEN -x ELSE x

RECURSIVE GCD(_, _)
GCD(a, b) == IF b = 0 THEN a ELSE GCD(b, a % b)

\* the rational n/d (d # 0) in lowest terms with a positive denominator
Rat(n, d) ==
    LET g == GCD(Abs(n), Abs(d))
        s == IF d < 0 THEN -1 ELSE 1
    IN  [n |-> (s * n) \div g, d |-> (s * d) \div g]

Num(k) == [n |-> k, d |-> 1]
Zero == [n |-> 0, d |-> 1]
NaN == [n |-> 0, d |-> 0]
PosInf == [n |-> 1, d |-> 0]
NegInf == [n |-> -1, d |-> 0]

IsFinite(a) == a.d # 0
IsNaN(a) == a = NaN

\* a < b as IEEE compares: false whenever an operand is nan
Lt(a, b) ==
    IF IsNaN(a) \/ IsNaN(b) THEN FALSE
    ELSE IF IsFinite(a) /\ IsFinite(b) THEN a.n * b.d < b.n * a.d
    ELSE IF a = NegInf THEN b # NegInf
    ELSE IF b = PosInf THEN a # PosInf
    ELSE FALSE

Gt(a, b) == Lt(b, a)

\* a + b, both finite
Add(a, b) == Rat(a.n * b.d + b.n * a.d, a.d * b.d)

\* a - b, both finite
Sub(a, b) == Rat(a.n * b.d - b.n * a.d, a.d * b.d)

\* a * b for finite b; a may be the non-finite result of a division
Mul(a, b) ==
    IF IsFinite(a) THEN Rat(a.n * b.n, a.d * b.d)
    ELSE IF IsNaN(a) \/ b.n = 0 THEN NaN
    ELSE IF (a = PosInf) = (b.n > 0) THEN PosInf
    ELSE NegInf

\* a / b for finite a and b; a zero divisor gives inf, -inf or nan, not an error
Div(a, b) ==
    IF b.n # 0 THEN Rat(a.n * b.d, a.d * b.n)
    ELSE IF a.n > 0 THEN PosInf
    ELSE IF a.n < 0 THEN NegInf
    ELSE NaN

----------------------------------------------------------------------------
(* NumPy array primitives on array contents (sequences of numbers). *)

Range(s) == {s[k] : k \in 1..Len(s)}

RECURSIVE SumSeq(_, _)
SumSeq(arr, k) == IF k = 0 THEN Zero ELSE Add(SumSeq(arr, k - 1), arr[k])

\* ndarray.mean(); the mean of an empty array is nan (a warning, no exception)
Mean(arr) ==
    IF Len(arr) = 0 THEN NaN ELSE Div(SumSeq(arr, Len(arr)), Num(Len(arr)))

\* ndarray.max() / ndarray.min() of a non-empty array of finite values
ArrayMax(arr) == CHOOSE v \in Range(arr) : \A w \in Range(arr) : ~Lt(v, w)
ArrayMin(arr) == CHOOSE v \in Range(arr) : \A w \in Range(arr) : ~Lt(w, v)

\* the k-th smallest element (1-based) of a non-empty array of finite values
KthSmallest(arr, k) ==
    CHOOSE v \in Range(arr) :
        /\ Cardinality({j \in 1..Len(arr) : Lt(arr[j], v)}) < k
        /\ k <= Cardinality({j \in 1..Len(arr) : ~Lt(v, arr[j])})

\* np.median: the middle element, or the mean of the two middle ones; nan if empty
Median(arr) ==
    LET n == Len(arr)
    IN  IF n = 0 THEN NaN
        ELSE IF n % 2 = 1 THEN KthSmallest(arr, (n + 1) \div 2)
        ELSE Div(Add(KthSmallest(arr, n \div 2), KthSmallest(arr, n \div 2 + 1)), Num(2))

\* arr[mask] = 0. : the content of the array after the masked assignment
ZeroWhere(arr, mask) == [k \in 1..Len(arr) |-> IF mask[k] THEN Zero ELSE arr[k]]

\* arr[mask] : the elements at the true positions of mask, in order
RECURSIVE TakeMasked(_, _, _)
TakeMasked(arr, mask, k) ==
    IF k = 0 THEN <<>>
    ELSE IF mask[k] THEN Append(TakeMasked(arr, mask, k - 1), arr[k])
    ELSE TakeMasked(arr, mask, k - 1)

BoolIndex(arr, mask) == TakeMasked(arr, mask, Len(mask))

\* ndarray.clip(0)
ClipZero(arr) == [k \in 1..Len(arr) |-> IF Lt(arr[k], Zero) THEN Zero ELSE arr[k]]

\* ceil(a) of a finite rational
Ceil(a) == -((-a.n) \div a.d)

\* np.arange(start, stop, step), step > 0: ceil((stop - start) / step) points
Arange(start, stop, step) ==
    LET cnt == Ceil(Div(Sub(stop, start), step))
        len == IF cnt < 0 THEN 0 ELSE cnt
    IN  [k \in 1..len |-> Add(start, Mul(Num(k - 1), step))]

\* np.interp at one point x: clamped outside [xp[1], xp[n]], linear inside
InterpAt(x, xp, fp) ==
    LET n == Len(xp)
    IN  IF Lt(xp[n], x) THEN fp[n]
        ELSE IF Lt(x, xp[1]) THEN fp[1]
        ELSE LET j == CHOOSE i \in 1..n :
                          /\ ~Lt(x, xp[i])
                          /\ \A m \in (i + 1)..n : Lt(x, xp[m])
             IN  IF j = n \/ xp[j] = x THEN fp[j]
                 ELSE Add(fp[j], Mul(Div(Sub(fp[j + 1], fp[j]), Sub(xp[j + 1], xp[j])),
                                     Sub(x, xp[j])))

Interp(xs, xp, fp) == [k \in 1..Len(xs) |-> InterpAt(xs[k], xp, fp)]

----------------------------------------------------------------------------
(* Filter instances.  An instance is [cls, args, oid]: its class, its       *)
(* configuration (the __init__ parameters in declaration order) and its     *)
(* object identity.                                                         *)

NoInst == [cls |-> "", args |-> <<>>, oid |-> 0]

\* the default values of the __init__ parameters of each class
InitDefaults(cls) ==
    CASE cls = "SavitskyGolayFilter" -> <<Num(5), Num(3), Num(0)>>
      [] cls = "NPercentOfMaxFilter" -> <<Rat(1, 1000)>>
      [] cls = "FTICRBaselineRemoval" -> <<Num(1), Num(10), Num(5)>>
      [] OTHER -> <<>>

\* cls(*given): the given arguments fill the leading parameters, defaults the rest
Construct(cls, given, oid) ==
    LET dflt == InitDefaults(cls)
    IN  [cls |-> cls,
         args |-> given \o SubSeq(dflt, Len(given) + 1, Len(dflt)),
         oid |-> oid]

\* what a call of a filter yields: a pair of array references and the heap
\* after the call, or an exception
Returns(h, mz, it) == [err |-> "none", heap |-> h, mz |-> mz, int |-> it]
Raises(e, h) == [err |-> e, heap |-> h, mz |-> 0, int |-> 0]

\* FilterBase.filter
FilterBaseFilter(self, h, mz, it) == Returns(h, mz, it)

\* mutant: the copy of line 64 is missing and the assignment hits the input
MedianIntensityFilterInPlace(self, h, mz, it) ==
    LET a == h[it]
        med == Median(a)
        mask == [k \in 1..Len(a) |-> Lt(a[k], med)]
    IN  Returns([h EXCEPT ![it] = ZeroWhere(a, mask)], mz, it)

\* MedianIntensityFilter.filter
MedianIntensityFilter(self, h, mz, it) ==
    LET a == h[it]
        med == Median(a)
        mask == [k \in 1..Len(a) |-> Lt(a[k], med)]
        h2 == Append(h, ZeroWhere(a, mask))
    IN  Returns(h2, mz, Len(h2))

\* (intensity_array < mean).mean(): the fraction of true entries; nan if empty
MaskMean(mask) ==
    IF Len(mask) = 0 THEN NaN
    ELSE Rat(Cardinality({k \in 1..Len(mask) : mask[k]}), Len(mask))

\* MeanBelowMeanFilter.filter
MeanBelowMeanFilter(self, h, mz, it) ==
    LET a == h[it]
        mean == Mean(a)
        mean_below_mean == MaskMean([k \in 1..Len(a) |-> Lt(a[k], mean)])
        mask == [k \in 1..Len(a) |-> Lt(a[k], mean_below_mean)]
    IN  Returns([h EXCEPT ![it] = ZeroWhere(a, mask)], mz, it)

\* SavitskyGolayFilter.filter.  sm is what scipy.signal.savgol_filter returns
\* for the intensities (see SavgolOutputs); it refuses a polynomial order that
\* is not below the window length and an array shorter than the window.
SavitskyGolayFilter(self, h, mz, it, sm) ==
    LET window_length == self.args[1].n
        polyorder == self.args[2].n
    IN  IF polyorder >= window_length \/ window_length > Len(h[it])
        THEN Raises("ValueError", h)
        ELSE LET smoothed == ClipZero(sm)
                 mask == [k \in 1..Len(smoothed) |-> Gt(smoothed[k], Zero)]
             IN  IF Len(h[mz]) # Len(mask) THEN Raises("IndexError", h)
                 ELSE LET h2 == h \o <<BoolIndex(h[mz], mask),
                                       BoolIndex(smoothed, mask)>>
                      IN  Returns(h2, Len(h2) - 1, Len(h2))

\* mutant: the division of line 116 raises on a zero maximum
NPercentOfMaxFilterRaising(self, h, mz, it) ==
    LET a == h[it]
        p == self.args[1]
    IN  IF Len(a) = 0 THEN Raises("ValueError", h)
        ELSE LET mx == ArrayMax(a)
                 mask == [k \in 1..Len(a) |-> Lt(Div(a[k], mx), p)]
                 h2 == Append(h, ZeroWhere(a, mask))
             IN  IF mx = Zero THEN Raises("ZeroDivisionError", h)
                 ELSE Returns(h2, mz, Len(h2))

\* NPercentOfMaxFilter.filter
NPercentOfMaxFilter(self, h, mz, it) ==
    LET a == h[it]
        p == self.args[1]
    IN  IF Len(a) = 0 THEN Raises("ValueError", h)
        ELSE LET mx == ArrayMax(a)
                 mask == [k \in 1..Len(a) |-> Lt(Div(a[k], mx), p)]
                 h2 == Append(h, ZeroWhere(a, mask))
             IN  Returns(h2, mz, Len(h2))

\* LinearResampling.filter
LinearResampling(self, h, mz, it) ==
    LET x == h[mz]
        spacing == self.args[1]
    IN  IF Len(x) = 0 THEN Raises("ValueError", h)
        ELSE LET lo == ArrayMin(x)
                 hi == ArrayMax(x)
                 new_mz == Arange(lo, Add(hi, spacing), spacing)
             IN  IF Len(h[it]) # Len(x) THEN Raises("ValueError", h)
                 ELSE LET h2 == h \o <<new_mz, Interp(new_mz, x, h[it])>>
                      IN  Returns(h2, Len(h2) - 1, Len(h2))

\* mutant: the comparison of line 172 is not strict
ConstantThresholdMaskInclusive(a, constant) ==
    [k \in 1..Len(a) |-> ~Lt(a[k], constant)]

\* the mask of ConstantThreshold.filter
ConstantThresholdMask(a, constant) == [k \in 1..Len(a) |-> Gt(a[k], constant)]

\* mutant: the mask is applied to the intensities only
ConstantThresholdIntensityOnly(self, h, mz, it) ==
    LET mask == ConstantThresholdMask(h[it], self.args[1])
        h2 == Append(h, BoolIndex(h[it], mask))
    IN  Returns(h2, mz, Len(h2))

\* ConstantThreshold.filter
ConstantThreshold(self, h, mz, it) ==
    LET mask == ConstantThresholdMask(h[it], self.args[1])
    IN  IF Len(h[mz]) # Len(mask) THEN Raises("IndexError", h)
        ELSE LET h2 == h \o <<BoolIndex(h[mz], mask), BoolIndex(h[it], mask)>>
             IN  Returns(h2, Len(h2) - 1, Len(h2))

\* mutant: the comparison of line 182 is turned around
MaximumScalerBelow(mx, threshold) == Lt(mx, threshold)

\* the condition of line 182 under which MaximumScaler.filter rescales
MaximumScalerExceeds(mx, threshold) == Gt(mx, threshold)

\* MaximumScaler.filter
MaximumScaler(self, h, mz, it) ==
    LET a == h[it]
        threshold == self.args[1]
    IN  IF Len(a) = 0 THEN Raises("ValueError", h)
        ELSE LET mx == ArrayMax(a)
             IN  IF MaximumScalerExceeds(mx, threshold)
                 THEN LET h2 == Append(h, [k \in 1..Len(a) |->
                                              Mul(Div(a[k], mx), threshold)])
                      IN  Returns(h2, mz, Len(h2))
                 ELSE Returns(h, mz, it)

\* FilterBase.__call__: dispatch to the filter method of the instance's class.
\* FTICRBaselineRemoval delegates to fticr_denoising.denoise, which is outside
\* this module; no call of the model passes it.
CallFilter(self, h, mz, it, sm) ==
    CASE self.cls = "FilterBase" -> FilterBaseFilter(self, h, mz, it)
      [] self.cls = "MedianIntensityFilter" -> MedianIntensityFilter(self, h, mz, it)
      [] self.cls = "MeanBelowMeanFilter" -> MeanBelowMeanFilter(self, h, mz, it)
      [] self.cls = "SavitskyGolayFilter" -> SavitskyGolayFilter(self, h, mz, it, sm)
      [] self.cls = "NPercentOfMaxFilter" -> NPercentOfMaxFilter(self, h, mz, it)
      [] self.cls = "LinearResampling" -> LinearResampling(self, h, mz, it)
      [] self.cls = "ConstantThreshold" -> ConstantThreshold(self, h, mz, it)
      [] self.cls = "MaximumScaler" -> MaximumScaler(self, h, mz, it)

----------------------------------------------------------------------------
(* The register decorator and the registrations of the module. *)

\* the @register(...) lines of the module in the order they execute: top to
\* bottom, and within one class the decorator nearest the class first
Registrations == <<
    [name |-> "median", cls |-> "MedianIntensityFilter", given |-> <<>>],
    [name |-> "mean_below_mean", cls |-> "MeanBelowMeanFilter", given |-> <<>>],
    [name |-> "savitsky_golay", cls |-> "SavitskyGolayFilter", given |-> <<>>],
    [name |-> "one_percent_of_max", cls |-> "NPercentOfMaxFilter",
     given |-> <<Rat(1, 100)>>],
    [name |-> "tenth_percent_of_max", cls |-> "NPercentOfMaxFilter", given |-> <<>>],
    [name |-> "fticr_baseline", cls |-> "FTICRBaselineRemoval", given |-> <<>>],
    [name |-> "linear_resampling", cls |-> "LinearResampling",
     given |-> <<Rat(1, 100)>>],
    [name |-> "over_100", cls |-> "ConstantThreshold", given |-> <<Num(100)>>],
    [name |-> "over_10", cls |-> "ConstantThreshold", given |-> <<Num(10)>>],
    [name |-> "extreme_scale_limiter", cls |-> "MaximumScaler",
     given |-> <<Num(30000)>>] >>

\* filter_register[name] = inst
SetItem(reg, name, inst) ==
    [k \in DOMAIN reg \cup {name} |-> IF k = name THEN inst ELSE reg[k]]

\* mutant: the arguments are kept on the class, so every entry registered for
\* the class so far takes the configuration of the latest registration
RegisterWrapSharedConfig(reg, name, cls, given, oid) ==
    LET inst == Construct(cls, given, oid)
    IN  [k \in DOMAIN reg \cup {name} |->
            IF k = name THEN inst
            ELSE IF reg[k].cls = cls THEN [reg[k] EXCEPT !.args = inst.args]
            ELSE reg[k]]

\* register(name, *args, **kwargs)(cls): the dict after wrap(cls) ran
RegisterWrap(reg, name, cls, given, oid) ==
    SetItem(reg, name, Construct(cls, given, oid))

EmptyRegister == [k \in {} |-> NoInst]

----------------------------------------------------------------------------
(* transform. *)

\* a filter reference: a string, or a callable / FilterBase instance
ByName(s) == [kind |-> "name", name |-> s, inst |-> NoInst]
ByInstance(i) == [kind |-> "instance", name |-> "", inst |-> i]

\* the filters argument: None or a sequence of references
NoneArg == [none |-> TRUE, refs |-> <<>>]
ListArg(l) == [none |-> FALSE, refs |-> l]

\* mutant: a missing or empty list becomes a default pipeline
NormalizeFiltersDefault(f) ==
    IF f.none \/ f.refs = <<>> THEN <<ByName("median")>> ELSE f.refs

\* lines 215-216: None becomes the empty list
NormalizeFilters(f) == IF f.none THEN <<>> ELSE f.refs

\* mutant: filter_register.get(name, FilterBase()): a missing name is no error
GetItemDefault(reg, name) ==
    IF name \in DOMAIN reg
    THEN [err |-> "none", value |-> reg[name], dict |-> reg]
    ELSE [err |-> "none", value |-> Construct("FilterBase", <<>>, 0), dict |-> reg]

\* mutant: a defaultdict-like register: reading a missing name inserts it
GetItemSetDefault(reg, name) ==
    IF name \in DOMAIN reg
    THEN [err |-> "none", value |-> reg[name], dict |-> reg]
    ELSE [err |-> "none", value |-> Construct("FilterBase", <<>>, 0),
          dict |-> SetItem(reg, name, Construct("FilterBase", <<>>, 0))]

\* filter_register[name]: the value, or KeyError; reading leaves the dict as it is
GetItem(reg, name) ==
    IF name \in DOMAIN reg
    THEN [err |-> "none", value |-> reg[name], dict |-> reg]
    ELSE [err |-> "KeyError", value |-> NoInst, dict |-> reg]

\* lines 219-220: a string is looked up in the register, anything else is used as is
ResolveReference(reg, ref) ==
    IF ref.kind = "name" THEN GetItem(reg, ref.name)
    ELSE [err |-> "none", value |-> ref.inst, dict |-> reg]

\* mutant: every stage is called with the caller's original arrays
CallArgumentsOriginal(mz, it) == <<1, 2>>

\* line 221: the arguments of the call are the current locals
CallArguments(mz, it) == <<mz, it>>

\* the for loop of line 218 moves on to the next element
LoopAdvance(i) == i + 1

\* the values the model lets scipy.signal.savgol_filter return
SmoothVals == {Num(-1), Num(2)}

\* scipy.signal.savgol_filter(a, window_length, polyorder, deriv) as called on
\* lines 102-104: with a window of one point the fitted polynomial passes
\* through the point itself and the array comes back as it is; for a wider
\* window the result is an array of the same length, otherwise unconstrained
SavgolOutputs(self, a) ==
    IF self.args[1].n = 1 /\ self.args[3].n = 0 THEN {a}
    ELSE [1..Len(a) -> SmoothVals]

\* the module is imported: one register decorator runs (lines 38-41)
LoadRegister ==
    /\ pc = "loading"
    /\ load_idx < Len(Registrations)
    /\ LET r == Registrations[load_idx + 1]
       IN  filter_register' =
               RegisterWrap(filter_register, r.name, r.cls, r.given, next_oid)
    /\ next_oid' = next_oid + 1
    /\ load_idx' = load_idx + 1
    /\ pc' = IF load_idx + 1 = Len(Registrations) THEN "idle" ELSE "loading"
    /\ UNCHANGED <<filters_arg, filters, idx, heap, mz_array, intensity_array,
                   error, passed, trace>>

\* a caller calls transform(c, i, f): lines 187, 215-216
TransformCall(c, i, f) ==
    /\ pc = "idle"
    /\ heap' = <<c, i>>
    /\ passed' = [mz |-> c, int |-> i]
    /\ mz_array' = 1
    /\ intensity_array' = 2
    /\ filters_arg' = f
    /\ filters' = NormalizeFilters(f)
    /\ idx' = 1
    /\ error' = "none"
    /\ trace' = <<>>
    /\ pc' = "loop"
    /\ UNCHANGED <<filter_register, load_idx, next_oid>>

\* one iteration of the for loop: lines 218-221
TransformStep ==
    /\ pc = "loop"
    /\ idx <= Len(filters)
    /\ LET res == ResolveReference(filter_register, filters[idx])
           filt == res.value
           args == CallArguments(mz_array, intensity_array)
           smooths == IF res.err = "none" /\ filt.cls = "SavitskyGolayFilter"
                      THEN SavgolOutputs(filt, heap[args[2]])
                      ELSE {<<>>}
       IN  /\ filter_register' = res.dict
           /\ IF res.err # "none"
              THEN /\ pc' = "raised"
                   /\ error' = res.err
                   /\ UNCHANGED <<heap, mz_array, intensity_array, idx, trace>>
              ELSE \E sm \in smooths :
                     LET out == CallFilter(filt, heap, args[1], args[2], sm)
                     IN  /\ heap' = out.heap
                         /\ IF out.err # "none"
                            THEN /\ pc' = "raised"
                                 /\ error' = out.err
                                 /\ UNCHANGED <<mz_array, intensity_array, idx, trace>>
                            ELSE /\ mz_array' = out.mz
                                 /\ intensity_array' = out.int
                                 /\ idx' = LoopAdvance(idx)
                                 /\ trace' = Append(trace,
                                        [filt |-> filt,
                                         in_mz |-> args[1], in_int |-> args[2],
                                         in_mz_val |-> heap[args[1]],
                                         in_int_val |-> heap[args[2]],
                                         out_mz |-> out.mz, out_int |-> out.int,
                                         out_mz_val |-> out.heap[out.mz],
                                         out_int_val |-> out.heap[out.int],
                                         in_mz_after |-> out.heap[args[1]],
                                         in_int_after |-> out.heap[args[2]],
                                         sm |-> sm])
                                 /\ UNCHANGED <<pc, error>>
    /\ UNCHANGED <<load_idx, next_oid, filters_arg, filters, passed>>

\* the loop is exhausted: line 223 returns the current pair
TransformReturn ==
    /\ pc = "loop"
    /\ idx > Len(filters)
    /\ pc' = "returned"
    /\ UNCHANGED <<filter_register, load_idx, next_oid, filters_arg, filters, idx,
                   heap, mz_array, intensity_array, error, passed, trace>>

\* transform has returned (line 223) or raised: its frame is gone and the caller
\* is free to call again
TransformExit ==
    /\ pc \in {"returned", "raised"}
    /\ pc' = "idle"
    /\ filters_arg' = NoneArg
    /\ filters' = <<>>
    /\ idx' = 1
    /\ heap' = <<>>
    /\ mz_array' = 0
    /\ intensity_array' = 0
    /\ error' = "none"
    /\ passed' = [mz |-> <<>>, int |-> <<>>]
    /\ trace' = <<>>
    /\ UNCHANGED <<filter_register, load_idx, next_oid>>

----------------------------------------------------------------------------
(* The calls the model makes. *)

\* coordinates a caller passes: non-decreasing
CoordVals == {Zero, Rat(2, 100)}

CoordinateArrays(n) ==
    {c \in [1..n -> CoordVals] : \A k \in 1..(n - 1) : ~Lt(c[k + 1], c[k])}

\* intensities of the pipeline calls
Vals == {Num(-1), Zero, Num(50)}

\* references of the runner calls: registered names, a name that is not
\* registered, a plain callable and an instance built with its own arguments
FilterRefs ==
    {ByName("mean_below_mean"), ByName("savitsky_golay"),
     ByName("tenth_percent_of_max"), ByName("over_10"),
     ByName("does_not_exist"),
     ByInstance(Construct("FilterBase", <<>>, 0)),
     ByInstance(Construct("MaximumScaler", <<Num(10)>>, 0))}

FilterArgs ==
    {NoneArg} \cup {ListArg(l) : l \in UNION {[1..n -> FilterRefs] : n \in 0..MaxFilters}}

\* references of the variant pipelines: one of each built-in variant, with
\* arguments the short arrays of the model can exercise
VariantRefs ==
    {ByName("median"), ByName("mean_below_mean"),
     ByName("tenth_percent_of_max"), ByName("linear_resampling"), ByName("over_10"),
     ByInstance(Construct("SavitskyGolayFilter", <<Num(1), Num(0)>>, 0)),
     ByInstance(Construct("MaximumScaler", <<Num(10)>>, 0))}

VariantArgs ==
    {ListArg(l) : l \in UNION {[1..n -> VariantRefs] : n \in 0..MaxFilters}}

\* intensities of the single-filter calls
PresetVals == {Num(-1), Zero, Num(1), Num(50), Num(200), Num(40000)}

\* every filter the module registers that is defined in it, by name
PresetNames == {"median", "mean_below_mean", "savitsky_golay",
                "tenth_percent_of_max", "one_percent_of_max", "linear_resampling",
                "over_10", "over_100", "extreme_scale_limiter"}

\* thresholds and constants of the instances a caller builds
ScalerThresholds == {Num(-1), Zero, Num(50)}
ThresholdConstants == {Num(-1), Zero, Num(1)}
Fractions == {Rat(1, 2)}

ThresholdRefs ==
    {ByName("over_10"), ByName("over_100")} \cup
    {ByInstance(Construct("ConstantThreshold", <<c>>, 0)) : c \in ThresholdConstants}

PresetRefs ==
    {ByName(s) : s \in PresetNames} \cup ThresholdRefs \cup
    {ByInstance(Construct("MaximumScaler", <<t>>, 0)) : t \in ScalerThresholds} \cup
    {ByInstance(Construct("NPercentOfMaxFilter", <<p>>, 0)) : p \in Fractions} \cup
    {ByInstance(Construct("SavitskyGolayFilter", <<Num(1), Num(0), Num(1)>>, 0))}

\* one filter alone, or a constant threshold twice in succession
PresetArgs ==
    {ListArg(<<r>>) : r \in PresetRefs} \cup {ListArg(<<r, r>>) : r \in ThresholdRefs}

Init ==
    /\ filter_register = EmptyRegister
    /\ load_idx = 0
    /\ next_oid = 1
    /\ pc = "loading"
    /\ filters_arg = NoneArg
    /\ filters = <<>>
    /\ idx = 1
    /\ heap = <<>>
    /\ mz_array = 0
    /\ intensity_array = 0
    /\ error = "none"
    /\ passed = [mz |-> <<>>, int |-> <<>>]
    /\ trace = <<>>

\* a call of a pipeline
Call ==
    /\ pc = "idle"
    /\ \E n \in 0..MaxLen : \E c \in CoordinateArrays(n) : \E i \in [1..n -> Vals] :
          \E f \in FilterArgs : TransformCall(c, i, f)

\* a call of a pipeline of built-in variants
VariantCall ==
    /\ pc = "idle"
    /\ \E n \in 0..MaxLen : \E c \in CoordinateArrays(n) : \E i \in [1..n -> Vals] :
          \E f \in VariantArgs : TransformCall(c, i, f)

\* a call with a single filter
PresetCall ==
    /\ pc = "idle"
    /\ \E n \in 0..MaxLen : \E c \in CoordinateArrays(n) :
          \E i \in [1..n -> PresetVals] : \E f \in PresetArgs : TransformCall(c, i, f)

Next == LoadRegister \/ Call \/ TransformStep \/ TransformReturn \/ TransformExit

Spec == Init /\ [][Next]_vars

NextVariant ==
    LoadRegister \/ VariantCall \/ TransformStep \/ TransformReturn \/ TransformExit

SpecVariant == Init /\ [][NextVariant]_vars

NextPreset ==
    LoadRegister \/ PresetCall \/ TransformStep \/ TransformReturn \/ TransformExit

SpecPreset == Init /\ [][NextPreset]_vars

----------------------------------------------------------------------------
(* Vocabulary of the properties. *)

InCall == pc \in {"loop", "returned", "raised"}

\* the caller's two arrays hold the values they were passed with
CallerUnchanged == heap[1] = passed.mz /\ heap[2] = passed.int

\* a string reference that is not a key of the register
IsAbsent(ref) == ref.kind = "name" /\ ref.name \notin DOMAIN filter_register

AbsentPositions == {k \in 1..Len(filters) : IsAbsent(filters[k])}

FirstAbsent == CHOOSE k \in AbsentPositions : \A j \in AbsentPositions : k <= j

\* the instance a resolvable reference stands for
Resolved(ref) == IF ref.kind = "name" THEN filter_register[ref.name] ELSE ref.inst

\* the pair of values a filter returns for a pair of values, applied on its own
FilterValue(filt, mzv, intv, sm) ==
    LET out == CallFilter(filt, <<mzv, intv>>, 1, 2, sm)
    IN  <<out.heap[out.mz], out.heap[out.int]>>

Stages == 1..Len(trace)

----------------------------------------------------------------------------
(* C1 *)

\* C1 as stated, for the calls in which no stage fails on its own: a call
\* whose list holds a name that is not registered does not return, and when
\* the unknown-filter error is raised the caller's arrays still hold the
\* values they were passed with.
C1_UnknownFilterBeforeMutation ==
    /\ (pc = "returned") => (AbsentPositions = {})
    /\ (pc = "raised" /\ error = "KeyError") => CallerUnchanged

\* C1 amended: a call whose list holds a name that is not registered never
\* returns; it raises KeyError when the loop reaches the first such name,
\* unless a stage before it raised first; the stages before the name have run
\* by then, and the caller's arrays hold their original values at the KeyError
\* unless a mean-below-mean stage before it was handed the caller's intensity
\* array; with the name in first position nothing has run.
C1_UnknownFilterAtItsPosition ==
    (InCall /\ AbsentPositions # {}) =>
        /\ pc # "returned"
        /\ idx <= FirstAbsent
        /\ pc = "raised" =>
              \/ error = "KeyError" /\ idx = FirstAbsent /\ Len(trace) = FirstAbsent - 1
              \/ error # "KeyError" /\ idx < FirstAbsent
        /\ (pc = "raised" /\ error = "KeyError") =>
              \/ CallerUnchanged
              \/ \E k \in Stages : /\ trace[k].filt.cls = "MeanBelowMeanFilter"
                                   /\ trace[k].in_int = 2
        /\ (pc = "raised" /\ FirstAbsent = 1) => (error = "KeyError" /\ CallerUnchanged)

\* a KeyError raised after a stage has already written into the caller's array
C1_Witness ==
    /\ pc = "raised"
    /\ error = "KeyError"
    /\ idx > 1
    /\ heap[2] # passed.int

----------------------------------------------------------------------------
(* C2 *)

\* C2: the stages run in list order, each once: stage k is the filter that
\* reference k resolves to, it receives the arrays (and values) stage k-1
\* returned (stage 1 the caller's), its result is the filter applied to those
\* values, and the pair returned is the result of the last stage.
C2_StagesInOrder ==
    InCall =>
        /\ Len(trace) = idx - 1
        /\ \A k \in Stages :
              /\ ~IsAbsent(filters[k])
              /\ trace[k].filt = Resolved(filters[k])
              /\ trace[k].in_mz = IF k = 1 THEN 1 ELSE trace[k - 1].out_mz
              /\ trace[k].in_int = IF k = 1 THEN 2 ELSE trace[k - 1].out_int
              /\ trace[k].in_mz_val = IF k = 1 THEN passed.mz ELSE trace[k - 1].out_mz_val
              /\ trace[k].in_int_val =
                     IF k = 1 THEN passed.int ELSE trace[k - 1].out_int_val
              /\ <<trace[k].out_mz_val, trace[k].out_int_val>> =
                     FilterValue(trace[k].filt, trace[k].in_mz_val,
                                 trace[k].in_int_val, trace[k].sm)
        /\ pc = "returned" =>
              /\ Len(trace) = Len(filters)
              /\ mz_array = IF trace = <<>> THEN 1 ELSE trace[Len(trace)].out_mz
              /\ intensity_array = IF trace = <<>> THEN 2 ELSE trace[Len(trace)].out_int
              /\ heap[mz_array] =
                     IF trace = <<>> THEN passed.mz ELSE trace[Len(trace)].out_mz_val
              /\ heap[intensity_array] =
                     IF trace = <<>> THEN passed.int ELSE trace[Len(trace)].out_int_val

\* a returned call of two different stages, the second fed a new array
C2_Witness ==
    /\ pc = "returned"
    /\ Len(trace) = 2
    /\ trace[1].filt # trace[2].filt
    /\ trace[2].in_int # 2
    /\ trace[2].out_int_val # trace[1].out_int_val

----------------------------------------------------------------------------
(* C4 *)

\* C4: with None or the empty list, transform returns the very arrays it was
\* passed, with the values they were passed with, having run no stage; it
\* never raises.
C4_Identity ==
    (InCall /\ (filters_arg.none \/ filters_arg.refs = <<>>)) =>
        /\ pc # "raised"
        /\ trace = <<>>
        /\ heap = <<passed.mz, passed.int>>
        /\ pc = "returned" => (mz_array = 1 /\ intensity_array = 2)

\* a call with None that returned non-empty arrays
C4_Witness ==
    /\ pc = "returned"
    /\ filters_arg.none
    /\ Len(passed.int) = MaxLen
    /\ heap[intensity_array] = passed.int

----------------------------------------------------------------------------
(* C6 *)

\* C6: no step of transform changes the register; only the register
\* decorators, which run while the module loads, do.
C6_RegistryFrame == [][pc # "loading" => filter_register' = filter_register]_vars

\* a call that failed on an unknown name, which the register still lacks
C6_Witness ==
    /\ pc = "raised"
    /\ error = "KeyError"
    /\ IsAbsent(filters[idx])
    /\ DOMAIN filter_register = {Registrations[k].name : k \in 1..Len(Registrations)}

----------------------------------------------------------------------------
(* C3 *)

ZeroingClasses == {"MedianIntensityFilter", "MeanBelowMeanFilter", "NPercentOfMaxFilter"}
MaskingClasses == {"SavitskyGolayFilter", "ConstantThreshold"}

\* the intensities a masking stage selects from
MaskedFrom(t) ==
    IF t.filt.cls = "SavitskyGolayFilter" THEN ClipZero(t.sm) ELSE t.in_int_val

\* element i of one output array belongs with element i of the other
Corresponds(t) ==
    CASE t.filt.cls \in ZeroingClasses ->
            /\ t.out_mz_val = t.in_mz_val
            /\ Len(t.out_int_val) = Len(t.in_int_val)
            /\ \A j \in 1..Len(t.out_int_val) :
                  t.out_int_val[j] \in {t.in_int_val[j], Zero}
      [] t.filt.cls = "MaximumScaler" ->
            /\ t.out_mz_val = t.in_mz_val
            /\ Len(t.out_int_val) = Len(t.in_int_val)
            /\ \A i, j \in 1..Len(t.out_int_val) :
                  Lt(t.in_int_val[i], t.in_int_val[j]) =>
                      ~Lt(t.out_int_val[j], t.out_int_val[i])
      [] t.filt.cls \in MaskingClasses ->
            \E mask \in [1..Len(t.in_mz_val) -> BOOLEAN] :
                /\ t.out_mz_val = BoolIndex(t.in_mz_val, mask)
                /\ t.out_int_val = BoolIndex(MaskedFrom(t), mask)
      [] t.filt.cls = "LinearResampling" ->
            \A j \in 1..Len(t.out_mz_val) :
                t.out_int_val[j] = InterpAt(t.out_mz_val[j], t.in_mz_val, t.in_int_val)

\* C3: every stage of a pipeline of built-in variants that is given arrays of
\* equal length returns arrays of equal length whose elements correspond by
\* index: kept coordinates with in-place values for the variants that keep the
\* length, the same positions removed from both arrays for the masking
\* variants, each new intensity interpolated at its own new coordinate for the
\* resampling.
C3_LengthCorrespondence ==
    \A k \in Stages :
        Len(trace[k].in_mz_val) = Len(trace[k].in_int_val) =>
            /\ Len(trace[k].out_mz_val) = Len(trace[k].out_int_val)
            /\ Corresponds(trace[k])

\* a masking stage that removed some points and kept others, after a resampling
C3_Witness ==
    /\ pc = "returned"
    /\ Len(trace) = 2
    /\ trace[1].filt.cls = "LinearResampling"
    /\ Len(trace[1].out_mz_val) > Len(trace[1].in_mz_val)
    /\ trace[2].filt.cls \in MaskingClasses
    /\ Len(trace[2].out_mz_val) > 0
    /\ Len(trace[2].out_mz_val) < Len(trace[2].in_mz_val)

----------------------------------------------------------------------------
(* C10 *)

NoMeanBelowMean ==
    \A k \in 1..Len(filters) : Resolved(filters[k]).cls # "MeanBelowMeanFilter"

\* the mean-below-mean stages that were handed the caller's intensity array
CallerWrites ==
    {k \in Stages : trace[k].filt.cls = "MeanBelowMeanFilter" /\ trace[k].in_int = 2}

LastCallerWrite == CHOOSE k \in CallerWrites : \A j \in CallerWrites : j <= k

\* C10: a stage other than mean-below-mean leaves the arrays it was handed as
\* they were, so a pipeline without a mean-below-mean stage leaves the
\* caller's arrays as passed; a mean-below-mean stage returns the very
\* intensity array it was handed, with entries zeroed in it, and when it is
\* first, or every stage before it handed its input array through, that array
\* is the caller's own, which then holds the zeroed values.
C10_OnlyMeanBelowMeanWritesInPlace ==
    InCall =>
        /\ NoMeanBelowMean => CallerUnchanged
        /\ \A k \in Stages :
              LET t == trace[k]
              IN  /\ t.in_mz_after = t.in_mz_val
                  /\ t.filt.cls # "MeanBelowMeanFilter" => t.in_int_after = t.in_int_val
                  /\ t.filt.cls = "MeanBelowMeanFilter" =>
                        /\ t.out_int = t.in_int
                        /\ t.out_mz = t.in_mz
                        /\ t.in_int_after = t.out_int_val
                        /\ \A j \in 1..Len(t.in_int_val) :
                              t.out_int_val[j] \in {t.in_int_val[j], Zero}
                        /\ (\A j \in 1..(k - 1) : trace[j].out_int = trace[j].in_int)
                              => t.in_int = 2
        /\ heap[1] = passed.mz
        /\ heap[2] = IF CallerWrites = {} THEN passed.int
                     ELSE trace[LastCallerWrite].out_int_val

\* a maximum rescale that scaled nothing handed the caller's array through to
\* a mean-below-mean stage, which zeroed an entry of it
C10_Witness ==
    /\ pc = "returned"
    /\ Len(trace) = 2
    /\ trace[1].filt.cls = "MaximumScaler"
    /\ trace[2].filt.cls = "MeanBelowMeanFilter"
    /\ trace[2].in_int = 2
    /\ heap[2] # passed.int

----------------------------------------------------------------------------
(* C5 *)

\* the registration of the module that binds a name
RegistrationOf(name) ==
    Registrations[CHOOSE k \in 1..Len(Registrations) : Registrations[k].name = name]

\* the same filter type constructed directly with the arguments of a registration
DirectInstance(name) ==
    Construct(RegistrationOf(name).cls, RegistrationOf(name).given, 0)

\* C5: once the module is loaded, every registered name is bound to an
\* instance of its own (no two names share one) that carries the arguments of
\* its own registration: p = 0.01 for one_percent_of_max and the default
\* p = 0.001 for tenth_percent_of_max, 10 for over_10 and 100 for over_100;
\* and a stage resolved from a name returns what the same type constructed
\* directly with those arguments returns for the same input.
C5_RegistryResolution ==
    pc # "loading" =>
        /\ \A a, b \in DOMAIN filter_register :
              a # b => filter_register[a].oid # filter_register[b].oid
        /\ \A a \in DOMAIN filter_register :
              /\ filter_register[a].cls = DirectInstance(a).cls
              /\ filter_register[a].args = DirectInstance(a).args
        /\ filter_register["one_percent_of_max"].args = <<Rat(1, 100)>>
        /\ filter_register["tenth_percent_of_max"].args = <<Rat(1, 1000)>>
        /\ filter_register["over_10"].args = <<Num(10)>>
        /\ filter_register["over_100"].args = <<Num(100)>>
        /\ \A k \in Stages :
              filters[k].kind = "name" =>
                  <<trace[k].out_mz_val, trace[k].out_int_val>> =
                      FilterValue(DirectInstance(filters[k].name), trace[k].in_mz_val,
                                  trace[k].in_int_val, trace[k].sm)

\* one_percent_of_max zeroed a point that tenth_percent_of_max would have kept
C5_Witness ==
    /\ pc = "returned"
    /\ filters = <<ByName("one_percent_of_max")>>
    /\ Len(trace) = 1
    /\ trace[1].out_int_val #
           FilterValue(DirectInstance("tenth_percent_of_max"), trace[1].in_mz_val,
                       trace[1].in_int_val, trace[1].sm)[2]

----------------------------------------------------------------------------
(* C7 *)

\* no output intensity exceeds t, and an input whose maximum is at most t
\* comes back as the very arrays that went in
ClippedAt(t) ==
    /\ \A j \in 1..Len(t.out_int_val) : ~Gt(t.out_int_val[j], t.filt.args[1])
    /\ ~Gt(ArrayMax(t.in_int_val), t.filt.args[1]) =>
          /\ t.out_mz = t.in_mz
          /\ t.out_int = t.in_int
          /\ t.out_mz_val = t.in_mz_val
          /\ t.out_int_val = t.in_int_val

ScalerStages == {k \in Stages : trace[k].filt.cls = "MaximumScaler"}

\* C7 as stated: for any threshold t the output of the maximum rescale has no
\* intensity above t, and an input with maximum at most t comes back as it is.
C7_MonotonicClipping == \A k \in ScalerStages : ClippedAt(trace[k])

\* C7 amended: the same for any threshold t >= 0.
C7_MonotonicClippingNonNegative ==
    \A k \in ScalerStages : ~Lt(trace[k].filt.args[1], Zero) => ClippedAt(trace[k])

\* a rescale with a non-negative threshold that scaled the intensities down
C7_Witness ==
    \E k \in ScalerStages :
        /\ ~Lt(trace[k].filt.args[1], Zero)
        /\ trace[k].out_int # trace[k].in_int
        /\ Len(trace[k].in_int_val) = MaxLen
        /\ trace[k].out_int_val[1] # trace[k].out_int_val[2]

----------------------------------------------------------------------------
(* C8 *)

ThresholdStages == {k \in Stages : trace[k].filt.cls = "ConstantThreshold"}

\* the positions of an array whose intensity is strictly greater than c
Above(intv, c) == [j \in 1..Len(intv) |-> c.n * intv[j].d < intv[j].n * c.d]

\* C8: one pass of the constant threshold keeps exactly the points whose
\* intensity is strictly greater than the constant, in order and in both
\* arrays; a second pass of the same filter returns the pair of the first.
C8_ThresholdIdempotent ==
    /\ \A k \in ThresholdStages :
          LET t == trace[k]
          IN  /\ t.out_int_val = BoolIndex(t.in_int_val, Above(t.in_int_val, t.filt.args[1]))
              /\ t.out_mz_val = BoolIndex(t.in_mz_val, Above(t.in_int_val, t.filt.args[1]))
    /\ \A k \in ThresholdStages :
          (k > 1 /\ trace[k - 1].filt = trace[k].filt) =>
              /\ trace[k].out_mz_val = trace[k - 1].out_mz_val
              /\ trace[k].out_int_val = trace[k - 1].out_int_val

\* two passes of one constant threshold, the first of which removed a point
\* equal to the constant and kept another
C8_Witness ==
    /\ pc = "returned"
    /\ Len(trace) = 2
    /\ trace[1].filt.cls = "ConstantThreshold"
    /\ trace[2].filt = trace[1].filt
    /\ trace[1].filt.args[1] \in Range(trace[1].in_int_val)
    /\ Len(trace[1].out_int_val) = 1

----------------------------------------------------------------------------
(* C9 *)

\* the p-fraction-of-max stages whose input had a maximum of 0
ZeroMaxStages ==
    {k \in Stages : /\ trace[k].filt.cls = "NPercentOfMaxFilter"
                    /\ Len(trace[k].in_int_val) > 0
                    /\ ArrayMax(trace[k].in_int_val) = Zero}

\* C9 as stated: a p-fraction-of-max stage whose input has a maximum of 0
\* fails, so no such stage ever completes.
C9_ZeroMaximumFails == ZeroMaxStages = {}

\* C9 amended: a p-fraction-of-max stage whose input has a maximum of 0 does
\* not fail: it returns the coordinate array it was handed and a new intensity
\* array of the same length holding only zeros, leaving its input as it was;
\* the stage fails only on an empty array.
C9_ZeroMaximumReturnsZeros ==
    /\ \A k \in ZeroMaxStages :
          LET t == trace[k]
          IN  /\ t.out_mz = t.in_mz
              /\ t.out_int # t.in_int
              /\ t.in_int_after = t.in_int_val
              /\ Len(t.out_int_val) = Len(t.in_int_val)
              /\ \A j \in 1..Len(t.out_int_val) : t.out_int_val[j] = Zero
    /\ (pc = "raised" /\ ~IsAbsent(filters[idx])
            /\ Resolved(filters[idx]).cls = "NPercentOfMaxFilter") =>
          (error = "ValueError" /\ heap[intensity_array] = <<>>)

\* a call returned the result of a stage whose input had a maximum of 0 and a
\* negative entry
C9_Witness ==
    /\ pc = "returned"
    /\ ZeroMaxStages = {1}
    /\ Len(trace) = 1
    /\ Num(-1) \in Range(trace[1].in_int_val)
    /\ heap[intensity_array] = trace[1].out_int_val

====
